---- MODULE Spec2Model ----
(***************************************************************************)
(* Times-tables practice: the spaced-repetition library                    *)
(* (times-tables-web/src/lib/spaced-rep.ts), the routes that call it       *)
(* (app/api/answer, app/api/reset, app/api/next-problem) and the practice  *)
(* page that calls the routes (app/practice/page.tsx).                     *)
(*                                                                         *)
(* Number representation.  The source computes with JavaScript numbers.    *)
(*   easeFactor    is held in hundredths (2.5 is 250); every constant the  *)
(*                 code adds to it is a whole number of hundredths.        *)
(*   intervalDays  is held in hundredths of a day (1 day is 100), and a    *)
(*                 product is rounded to the nearest hundredth.            *)
(*   nextReview,   are instants in hundredths of a day.                    *)
(*   now                                                                   *)
(*   responseSecs  is held in milliseconds (3 s is 3000).                  *)
(***************************************************************************)
EXTENDS Integers, Sequences, FiniteSets, TLC

VARIABLES
    progress,        \* problemProgress rows of the learner, in table order
    unlockedTables,  \* user.unlockedTables
    now,             \* the clock, Date.now()
    req,             \* the last request or library call, with its arguments
    res,             \* what it returned
    handlers,        \* the requests in flight: their position and locals
    page             \* the state of the practice page

vars == <<progress, unlockedTables, now, req, res, handlers, page>>

----------------------------------------------------------------------------
(* Bounds of the model *)

NumFactors == 2        \* Spec: the problems seeded have both factors among the
                       \* first NumFactors entries of TABLE_ORDER
MaxAnswers == 4        \* Spec: answers recorded in the learner's rows
MaxAnswersFact == 7    \* SpecFact: answers recorded in the learner's row
MaxAnswersLong == 14   \* SpecLong: answers recorded in the learner's row
MaxAnswersUnlock == 3  \* SpecUnlock: answers recorded in the learner's rows
MaxAnswersRaw == 4     \* SpecRaw: answers recorded in the learner's row
MaxAnswersPage == 4    \* SpecPage: answers recorded in the learner's rows
MaxAnswersSubmit == 3  \* SpecSubmit: answers recorded or in flight
MaxInFlight == 2       \* SpecSubmit: answer requests of the page in flight
MaxAnswersRace == 3    \* SpecRace: answers recorded before a request starts
MaxAnswersUsers == 2   \* SpecUsers: answers recorded in the rows of both learners
MaxWrongs == 7         \* SpecRecover: wrong answers in a row before the first state
MaxStreak == 15        \* SpecRecover: correct answers in a row
NumHandlers == 2       \* SpecRace: route handlers in flight at a time
MaxDays == 1           \* days the clock advances
MaxRows == 3           \* SpecLib: rows of a list given to selectNextProblem

----------------------------------------------------------------------------
(* spaced-rep.ts *)

TABLE_ORDER == <<1, 10, 5, 11, 2, 3, 9, 4, 6, 7, 8, 12>>

HUNDREDTHS == 100      \* one unit of easeFactor, one day of intervalDays
MAX_FACTOR == 12
DEFAULT_EASE == 250
MAX_EASE == 300
MIN_EASE == 130
WRONG_PENALTY == 20
FAST_BONUS == 15
MEDIUM_BONUS == 10
SLOW_BONUS == 5
FAST_SECS == 3000
MEDIUM_SECS == 8000
MASTERED_STREAK == 3
MASTERED_EASE == 200

NULL == [a |-> 0, b |-> 0]

Min(x, y) == IF x <= y THEN x ELSE y
Max(x, y) == IF x >= y THEN x ELSE y

Range(s) == {s[i] : i \in 1..Len(s)}

\* the factors of the problems seeded: the first k entries of TABLE_ORDER (the
\* source seeds all of 1..12, the model a part of it)
Factors(k) == {TABLE_ORDER[i] : i \in 1..Min(k, Len(TABLE_ORDER))}

\* the two loops, a outer and b inner, over 1..12
allPairs ==
    [i \in 1..(MAX_FACTOR * MAX_FACTOR) |->
        [a |-> ((i - 1) \div MAX_FACTOR) + 1, b |-> ((i - 1) % MAX_FACTOR) + 1]]

generateAllProblems(k) ==
    LET Seeded(p) == p.a \in Factors(k) /\ p.b \in Factors(k)
    IN SelectSeq(allPairs, Seeded)

\* TABLE_ORDER.slice(0, n): n is clamped to the length, a negative n counts
\* from the end
SliceEnd(n) ==
    IF n < 0 THEN Max(Len(TABLE_ORDER) + n, 0) ELSE Min(n, Len(TABLE_ORDER))

getUnlockedTableSet(n) == {TABLE_ORDER[i] : i \in 1..SliceEnd(n)}

\* faulty variant: one factor of an unlocked table is enough
isProblemUnlocked_either(a, b, n) ==
    a \in getUnlockedTableSet(n) \/ b \in getUnlockedTableSet(n)

isProblemUnlocked(a, b, n) ==
    a \in getUnlockedTableSet(n) /\ b \in getUnlockedTableSet(n)

\* faulty variant: the ease factor has to exceed 2.0
isMastered_above(stats) ==
    stats.consecutiveCorrect >= MASTERED_STREAK /\ stats.easeFactor > MASTERED_EASE

isMastered(stats) ==
    stats.consecutiveCorrect >= MASTERED_STREAK /\ stats.easeFactor >= MASTERED_EASE

\* faulty variant: a slow answer earns nothing
easeBonus_slowNothing(responseSecs) ==
    IF responseSecs < FAST_SECS THEN FAST_BONUS
    ELSE IF responseSecs <= MEDIUM_SECS THEN MEDIUM_BONUS ELSE 0

\* faulty variant: an answer in exactly 3 s counts as fast
easeBonus_inclusive(responseSecs) ==
    IF responseSecs <= FAST_SECS THEN FAST_BONUS
    ELSE IF responseSecs <= MEDIUM_SECS THEN MEDIUM_BONUS ELSE SLOW_BONUS

easeBonus(responseSecs) ==
    IF responseSecs < FAST_SECS THEN FAST_BONUS
    ELSE IF responseSecs <= MEDIUM_SECS THEN MEDIUM_BONUS ELSE SLOW_BONUS

\* intervalDays * easeFactor, to the nearest hundredth of a day: the value of
\* (intervalDays * easeFactor + 50) \div 100, computed on the whole days and on
\* the rest so that no intermediate product leaves the integers of TLC
TimesEase(intervalDays, easeFactor) ==
    (intervalDays \div HUNDREDTHS) * easeFactor
    + ((intervalDays % HUNDREDTHS) * easeFactor + HUNDREDTHS \div 2) \div HUNDREDTHS

correctInterval(intervalDays, easeFactor) ==
    IF intervalDays = 0 THEN HUNDREDTHS
    ELSE IF intervalDays < HUNDREDTHS THEN HUNDREDTHS
    ELSE TimesEase(intervalDays, easeFactor)

correctEase(easeFactor, responseSecs) ==
    Min(MAX_EASE, easeFactor + easeBonus(responseSecs))

\* faulty variant: no floor
wrongEase_noFloor(easeFactor) == easeFactor - WRONG_PENALTY

\* faulty variant: the floor is applied before the penalty
wrongEase_floorFirst(easeFactor) == Max(MIN_EASE, easeFactor) - WRONG_PENALTY

wrongEase(easeFactor) == Max(MIN_EASE, easeFactor - WRONG_PENALTY)

\* faulty variant: the review is scheduled by the interval before the update
calculateNewStats_oldInterval(current, correct, responseSecs, tnow) ==
    LET intervalDays == IF correct
                        THEN correctInterval(current.intervalDays, current.easeFactor)
                        ELSE 0
    IN [easeFactor |-> IF correct THEN correctEase(current.easeFactor, responseSecs)
                       ELSE wrongEase(current.easeFactor),
        intervalDays |-> intervalDays,
        nextReview |-> tnow + current.intervalDays,
        timesCorrect |-> IF correct THEN current.timesCorrect + 1
                         ELSE current.timesCorrect,
        timesWrong |-> IF correct THEN current.timesWrong
                       ELSE current.timesWrong + 1,
        consecutiveCorrect |-> IF correct THEN current.consecutiveCorrect + 1 ELSE 0]

\* faulty variant: a wrong answer takes a day off the interval
calculateNewStats_dayOff(current, correct, responseSecs, tnow) ==
    LET intervalDays == IF correct
                        THEN correctInterval(current.intervalDays, current.easeFactor)
                        ELSE current.intervalDays - HUNDREDTHS
    IN [easeFactor |-> IF correct THEN correctEase(current.easeFactor, responseSecs)
                       ELSE wrongEase(current.easeFactor),
        intervalDays |-> intervalDays,
        nextReview |-> tnow + intervalDays,
        timesCorrect |-> IF correct THEN current.timesCorrect + 1
                         ELSE current.timesCorrect,
        timesWrong |-> IF correct THEN current.timesWrong
                       ELSE current.timesWrong + 1,
        consecutiveCorrect |-> IF correct THEN current.consecutiveCorrect + 1 ELSE 0]

calculateNewStats(current, correct, responseSecs, tnow) ==
    LET intervalDays == IF correct
                        THEN correctInterval(current.intervalDays, current.easeFactor)
                        ELSE 0
    IN [easeFactor |-> IF correct THEN correctEase(current.easeFactor, responseSecs)
                       ELSE wrongEase(current.easeFactor),
        intervalDays |-> intervalDays,
        nextReview |-> tnow + intervalDays,
        timesCorrect |-> IF correct THEN current.timesCorrect + 1
                         ELSE current.timesCorrect,
        timesWrong |-> IF correct THEN current.timesWrong
                       ELSE current.timesWrong + 1,
        consecutiveCorrect |-> IF correct THEN current.consecutiveCorrect + 1 ELSE 0]

\* faulty variant: the rows of locked problems count too
unlockedOf_all(progressList, n) == progressList

unlockedOf(progressList, n) ==
    LET Unlocked(p) == isProblemUnlocked(p.problemA, p.problemB, n)
    IN SelectSeq(progressList, Unlocked)

masteredOf(progressList) == SelectSeq(progressList, isMastered)

shouldUnlockNextTable(progressList, n) ==
    IF n >= Len(TABLE_ORDER) THEN FALSE
    ELSE LET unlockedProblems == unlockedOf(progressList, n)
         IN IF Len(unlockedProblems) = 0 THEN FALSE
            ELSE 4 * Len(masteredOf(unlockedProblems)) >= Len(unlockedProblems) * 3

isLast(p, lastProblem) ==
    lastProblem # NULL /\ p.problemA = lastProblem.a /\ p.problemB = lastProblem.b

\* faulty variant: a row whose review falls exactly now is not due yet
dueCandidates_strict(progressList, n, lastProblem, tnow) ==
    LET Cand(p) == /\ isProblemUnlocked(p.problemA, p.problemB, n)
                   /\ p.nextReview < tnow
                   /\ ~isLast(p, lastProblem)
    IN SelectSeq(progressList, Cand)

dueCandidates(progressList, n, lastProblem, tnow) ==
    LET Cand(p) == /\ isProblemUnlocked(p.problemA, p.problemB, n)
                   /\ p.nextReview <= tnow
                   /\ ~isLast(p, lastProblem)
    IN SelectSeq(progressList, Cand)

\* faulty variant: the extra practice may repeat the last problem
anyCandidates_withLast(progressList, n, lastProblem) ==
    LET Cand(p) == isProblemUnlocked(p.problemA, p.problemB, n)
    IN SelectSeq(progressList, Cand)

anyCandidates(progressList, n, lastProblem) ==
    LET Cand(p) == /\ isProblemUnlocked(p.problemA, p.problemB, n)
                   /\ ~isLast(p, lastProblem)
    IN SelectSeq(progressList, Cand)

\* Array.prototype.sort with (a, b) => a.easeFactor - b.easeFactor: stable, so
\* rows of equal easeFactor keep their order
RECURSIVE insertByEase(_, _)
insertByEase(p, sorted) ==
    IF sorted = <<>> THEN <<p>>
    ELSE IF Head(sorted).easeFactor <= p.easeFactor
         THEN <<Head(sorted)>> \o insertByEase(p, Tail(sorted))
         ELSE <<p>> \o sorted

\* faulty variant: a sort that puts a row behind the later rows of equal easeFactor
RECURSIVE sortByEase_tiesReversed(_)
sortByEase_tiesReversed(s) ==
    IF s = <<>> THEN <<>>
    ELSE insertByEase(Head(s), sortByEase_tiesReversed(Tail(s)))

RECURSIVE sortByEase(_)
sortByEase(s) ==
    IF s = <<>> THEN <<>>
    ELSE insertByEase(s[Len(s)], sortByEase(SubSeq(s, 1, Len(s) - 1)))

selectNextProblem(progressList, n, lastProblem, tnow) ==
    LET due == dueCandidates(progressList, n, lastProblem, tnow)
        candidates == IF Len(due) = 0 THEN anyCandidates(progressList, n, lastProblem)
                      ELSE due
    IN IF Len(candidates) = 0 THEN NULL
       ELSE LET selected == sortByEase(candidates)[1]
            IN [a |-> selected.problemA, b |-> selected.problemB]

----------------------------------------------------------------------------
(* The stored rows *)

\* a problemProgress row as createMany inserts it: the column defaults
defaultProgress(a, b, tnow) ==
    [problemA |-> a, problemB |-> b, easeFactor |-> DEFAULT_EASE, intervalDays |-> 0,
     nextReview |-> tnow, timesCorrect |-> 0, timesWrong |-> 0,
     consecutiveCorrect |-> 0]

hasRow(rows, a, b) == \E i \in 1..Len(rows) : rows[i].problemA = a /\ rows[i].problemB = b

\* prisma.problemProgress.findUnique: the index of the row, 0 when there is none
findUnique(rows, a, b) ==
    IF hasRow(rows, a, b)
    THEN CHOOSE i \in 1..Len(rows) : rows[i].problemA = a /\ rows[i].problemB = b
    ELSE 0

\* prisma.problemProgress.update({where: {id}, data: newStats})
update(rows, i, newStats) ==
    [rows EXCEPT ![i] = [problemA |-> rows[i].problemA, problemB |-> rows[i].problemB,
                         easeFactor |-> newStats.easeFactor,
                         intervalDays |-> newStats.intervalDays,
                         nextReview |-> newStats.nextReview,
                         timesCorrect |-> newStats.timesCorrect,
                         timesWrong |-> newStats.timesWrong,
                         consecutiveCorrect |-> newStats.consecutiveCorrect]]

\* prisma.problemProgress.findMany without orderBy: the order of the rows is
\* not specified.  Any row may come first; the others keep the table's order.
findMany(rows) ==
    IF rows = <<>> THEN {<<>>}
    ELSE {<<rows[i]>> \o SubSeq(rows, 1, i - 1) \o SubSeq(rows, i + 1, Len(rows)) :
            i \in 1..Len(rows)}

\* the rows createMany adds: one per generated problem that has none
missingProblems(rows, k) ==
    LET Missing(p) == ~hasRow(rows, p.a, p.b)
    IN SelectSeq(generateAllProblems(k), Missing)

createMany(rows, missing, tnow) ==
    rows \o [i \in 1..Len(missing) |-> defaultProgress(missing[i].a, missing[i].b, tnow)]

RECURSIVE totalAnswered(_)
totalAnswered(rows) ==
    IF rows = <<>> THEN 0
    ELSE Head(rows).timesCorrect + Head(rows).timesWrong + totalAnswered(Tail(rows))

\* the stats object of both routes
statsOf(allProgress, n) ==
    [mastered |-> Len(masteredOf(unlockedOf(allProgress, n))),
     unlocked |-> Len(unlockedOf(allProgress, n)),
     total |-> totalAnswered(allProgress),
     unlockedTables |-> n]

----------------------------------------------------------------------------
(* The requests.  k bounds the problems seeded, maxAnswers the answers
   recorded, secs is the set of response times a request may carry. *)

Day == HUNDREDTHS

Answers(a, b) == {a * b, a * b + 1}

NoReq == [op |-> "none"]
NoRes == [status |-> 0]

\* no handler is in flight
NoHandlers == <<>>

\* the useState initial values of PracticePage; NaN stands for an input field
\* that holds no number
NaN == -1
initialPage ==
    [loading |-> TRUE, problem |-> NULL, answer |-> NaN, feedback |-> "none",
     correctAnswer |-> 0, confirmReset |-> FALSE]

Init ==
    /\ progress = <<>>
    /\ unlockedTables = 1
    /\ now = 0
    /\ req = NoReq
    /\ res = NoRes
    /\ handlers = NoHandlers
    /\ page = initialPage

\* a step of the routes taken as a whole, or of the library: no handler is in
\* flight and the page is not involved
RoutesOnly == UNCHANGED <<handlers, page>>

\* GET /api/next-problem
GetNextProblem(k) ==
    LET missing == missingProblems(progress, k)
        rows == IF Len(missing) > 0 THEN createMany(progress, missing, now) ELSE progress
    IN /\ progress' = rows
       /\ \E list \in findMany(rows) :
            res' = [status |-> 200,
                    problem |-> selectNextProblem(list, unlockedTables, NULL, now),
                    stats |-> statsOf(list, unlockedTables)]
       /\ req' = [op |-> "next-problem"]
       /\ UNCHANGED <<unlockedTables, now>>

\* faulty variant: a row is created for the problem and the request goes on
AnswerNotFound_creates(problemA, problemB, userAnswer, responseSecs) ==
    /\ findUnique(progress, problemA, problemB) = 0
    /\ req' = [op |-> "answer", problemA |-> problemA, problemB |-> problemB,
               userAnswer |-> userAnswer, responseSecs |-> responseSecs]
    /\ res' = [status |-> 200]
    /\ progress' = progress \o <<defaultProgress(problemA, problemB, now)>>
    /\ UNCHANGED <<unlockedTables, now>>

\* POST /api/answer when findUnique finds no row: 404
AnswerNotFound(problemA, problemB, userAnswer, responseSecs) ==
    /\ findUnique(progress, problemA, problemB) = 0
    /\ req' = [op |-> "answer", problemA |-> problemA, problemB |-> problemB,
               userAnswer |-> userAnswer, responseSecs |-> responseSecs]
    /\ res' = [status |-> 404]
    /\ UNCHANGED <<progress, unlockedTables, now>>

\* faulty variant: the check is repeated for the table just unlocked
unlockedAfter_again(allProgress, n) ==
    IF shouldUnlockNextTable(allProgress, n)
    THEN (IF shouldUnlockNextTable(allProgress, n + 1) THEN n + 2 ELSE n + 1)
    ELSE n

\* unlockedTables after the unlock check of the answer route
unlockedAfter(allProgress, n) ==
    IF shouldUnlockNextTable(allProgress, n) THEN n + 1 ELSE n

\* faulty variant: the next problem is selected before the unlock check
AnswerFound_selectFirst(problemA, problemB, userAnswer, responseSecs) ==
    LET correct == userAnswer = problemA * problemB
        i == findUnique(progress, problemA, problemB)
    IN /\ i # 0
       /\ LET newStats == calculateNewStats(progress[i], correct, responseSecs, now)
              rows == update(progress, i, newStats)
          IN /\ progress' = rows
             /\ \E allProgress \in findMany(rows) :
                  LET n == unlockedAfter(allProgress, unlockedTables)
                      lastProblem == [a |-> problemA, b |-> problemB]
                  IN /\ unlockedTables' = n
                     /\ res' = [status |-> 200, correct |-> correct,
                                nextProblem |->
                                    selectNextProblem(allProgress, unlockedTables,
                                                      lastProblem, now),
                                stats |-> statsOf(allProgress, n)]
       /\ req' = [op |-> "answer", problemA |-> problemA, problemB |-> problemB,
                  userAnswer |-> userAnswer, responseSecs |-> responseSecs]
       /\ UNCHANGED now

\* POST /api/answer when the row exists: update, unlock, select
AnswerFound(problemA, problemB, userAnswer, responseSecs) ==
    LET correct == userAnswer = problemA * problemB
        i == findUnique(progress, problemA, problemB)
    IN /\ i # 0
       /\ LET newStats == calculateNewStats(progress[i], correct, responseSecs, now)
              rows == update(progress, i, newStats)
          IN /\ progress' = rows
             /\ \E allProgress \in findMany(rows) :
                  LET n == unlockedAfter(allProgress, unlockedTables)
                      lastProblem == [a |-> problemA, b |-> problemB]
                  IN /\ unlockedTables' = n
                     /\ res' = [status |-> 200, correct |-> correct,
                                nextProblem |->
                                    selectNextProblem(allProgress, n, lastProblem, now),
                                stats |-> statsOf(allProgress, n)]
       /\ req' = [op |-> "answer", problemA |-> problemA, problemB |-> problemB,
                  userAnswer |-> userAnswer, responseSecs |-> responseSecs]
       /\ UNCHANGED now

PostAnswer(k, maxAnswers, secs) ==
    /\ totalAnswered(progress) < maxAnswers
    /\ \E problemA \in Factors(k), problemB \in Factors(k), responseSecs \in secs :
         \E userAnswer \in Answers(problemA, problemB) :
            \/ AnswerNotFound(problemA, problemB, userAnswer, responseSecs)
            \/ AnswerFound(problemA, problemB, userAnswer, responseSecs)

\* POST /api/reset
PostReset ==
    /\ progress' = <<>>
    /\ unlockedTables' = 1
    /\ req' = [op |-> "reset"]
    /\ res' = [status |-> 200]
    /\ UNCHANGED now

\* a day passes
Tick ==
    /\ now < MaxDays * Day
    /\ now' = now + Day
    /\ UNCHANGED <<progress, unlockedTables, req, res, handlers, page>>

\* The routes under any requests for the problems seeded
Next ==
    \/ GetNextProblem(NumFactors) /\ RoutesOnly
    \/ PostAnswer(NumFactors, MaxAnswers, {2000, 10000}) /\ RoutesOnly
    \/ PostReset /\ RoutesOnly
    \/ Tick

Spec == Init /\ [][Next]_vars

\* The routes when only the 1 x 1 problem is seeded, under every class of
\* response time
NextFact ==
    \/ GetNextProblem(1) /\ RoutesOnly
    \/ PostAnswer(1, MaxAnswersFact, {2000, 5000, 10000}) /\ RoutesOnly
    \/ PostReset /\ RoutesOnly
    \/ Tick

SpecFact == Init /\ [][NextFact]_vars

\* The routes when only the 1 x 1 problem is seeded and every answer is wrong
\* or fast, so that a learner reaches the last table within MaxAnswersLong
\* answers
NextLong ==
    \/ GetNextProblem(1) /\ RoutesOnly
    \/ PostAnswer(1, MaxAnswersLong, {2000}) /\ RoutesOnly
    \/ PostReset /\ RoutesOnly
    \/ Tick

SpecLong == Init /\ [][NextLong]_vars

\* The routes when the problems of the first two tables are seeded and every
\* answer is wrong or fast: the third correct answer to 1 x 1 unlocks the
\* second table
NextUnlock ==
    \/ GetNextProblem(2) /\ RoutesOnly
    \/ PostAnswer(2, MaxAnswersUnlock, {2000}) /\ RoutesOnly
    \/ PostReset /\ RoutesOnly
    \/ Tick

SpecUnlock == Init /\ [][NextUnlock]_vars

\* The body of an answer request is whatever JSON the client sent: the route
\* reads problemA, problemB, userAnswer and responseSecs from it as they are.
\* Factors in and out of 1..12, response times below zero and above.
RawFactors == {0, 1, 13}
RawSecs == {-1000, 2000, 10000}

PostAnswerRaw ==
    /\ totalAnswered(progress) < MaxAnswersRaw
    /\ \E problemA \in RawFactors, problemB \in RawFactors, responseSecs \in RawSecs :
         \E userAnswer \in Answers(problemA, problemB) :
            \/ AnswerNotFound(problemA, problemB, userAnswer, responseSecs)
            \/ AnswerFound(problemA, problemB, userAnswer, responseSecs)

\* The routes when only the 1 x 1 problem is seeded, under any request body
NextRaw ==
    \/ GetNextProblem(1) /\ RoutesOnly
    \/ PostAnswerRaw /\ RoutesOnly
    \/ PostReset /\ RoutesOnly
    \/ Tick

SpecRaw == Init /\ [][NextRaw]_vars

----------------------------------------------------------------------------
(* The POST handlers of /api/answer and /api/reset step by step.  A handler
   runs up to its next await, where the database executes the query it
   awaits; the handlers of other requests run in between.  A step is one query
   together with the code that leads to it; the last step is the code after
   the last query, which sends the response. *)

Handlers == 1..NumHandlers

idleHandler == [op |-> "none", pc |-> "idle"]

free(h) == handlers[h].pc \in {"idle", "done"}

\* the row of 1 x 1 as createMany inserts it, and as it is after two fast
\* correct answers: the next correct answer makes it mastered
seededRows ==
    LET created == <<defaultProgress(1, 1, 0)>>
        once == update(created, 1, calculateNewStats(created[1], TRUE, 2000, 0))
        twice == update(once, 1, calculateNewStats(once[1], TRUE, 2000, 0))
    IN {created, twice}

InitRace ==
    /\ progress \in seededRows
    /\ unlockedTables = 1
    /\ now = 0
    /\ req = NoReq
    /\ res = NoRes
    /\ handlers = [h \in Handlers |-> idleHandler]
    /\ page = initialPage

\* the request reaches the answer handler
StartAnswer(h) ==
    /\ free(h)
    /\ totalAnswered(progress) < MaxAnswersRace
    /\ \E userAnswer \in Answers(1, 1) :
         handlers' = [handlers EXCEPT ![h] =
            [op |-> "answer", pc |-> "findUnique", problemA |-> 1, problemB |-> 1,
             userAnswer |-> userAnswer, responseSecs |-> 2000]]
    /\ UNCHANGED <<progress, unlockedTables, now, req, res, page>>

\* const current = await prisma.problemProgress.findUnique(...)
AnswerFindUnique(h) ==
    /\ handlers[h].op = "answer" /\ handlers[h].pc = "findUnique"
    /\ LET i == findUnique(progress, handlers[h].problemA, handlers[h].problemB)
       IN handlers' = [handlers EXCEPT ![h] =
            [op |-> "answer", pc |-> "update", problemA |-> @.problemA,
             problemB |-> @.problemB, userAnswer |-> @.userAnswer,
             responseSecs |-> @.responseSecs, found |-> i # 0,
             current |-> IF i # 0 THEN progress[i] ELSE NULL, gone |-> FALSE]]
    /\ UNCHANGED <<progress, unlockedTables, now, req, res, page>>

\* if (!current) return 404; newStats = calculateNewStats(...);
\* await prisma.problemProgress.update({where: {id: current.id}, ...}), which
\* throws when the row of that id has been deleted
AnswerUpdate(h) ==
    /\ handlers[h].op = "answer" /\ handlers[h].pc = "update"
    /\ LET hd == handlers[h]
           correct == hd.userAnswer = hd.problemA * hd.problemB
       IN IF ~hd.found
          THEN /\ handlers' = [handlers EXCEPT ![h] =
                     [op |-> "answer", pc |-> "done", problemA |-> hd.problemA,
                      problemB |-> hd.problemB, res |-> [status |-> 404]]]
               /\ UNCHANGED progress
          ELSE IF hd.gone
          THEN /\ handlers' = [handlers EXCEPT ![h] =
                     [op |-> "answer", pc |-> "done", problemA |-> hd.problemA,
                      problemB |-> hd.problemB, res |-> [status |-> 500]]]
               /\ UNCHANGED progress
          ELSE /\ progress' = update(progress,
                                     findUnique(progress, hd.problemA, hd.problemB),
                                     calculateNewStats(hd.current, correct,
                                                       hd.responseSecs, now))
               /\ handlers' = [handlers EXCEPT ![h].pc = "userFindUnique"]
    /\ UNCHANGED <<unlockedTables, now, req, res, page>>

\* const user = await prisma.user.findUnique(...);
\* let unlockedTables = user?.unlockedTables ?? 1
AnswerUserFindUnique(h) ==
    /\ handlers[h].op = "answer" /\ handlers[h].pc = "userFindUnique"
    /\ handlers' = [handlers EXCEPT ![h] =
          [op |-> "answer", pc |-> "findMany", problemA |-> @.problemA,
           problemB |-> @.problemB, userAnswer |-> @.userAnswer, current |-> @.current,
           unlockedTables |-> unlockedTables]]
    /\ UNCHANGED <<progress, unlockedTables, now, req, res, page>>

\* const allProgress = await prisma.problemProgress.findMany(...)
AnswerFindMany(h) ==
    /\ handlers[h].op = "answer" /\ handlers[h].pc = "findMany"
    /\ \E allProgress \in findMany(progress) :
         handlers' = [handlers EXCEPT ![h] =
            [op |-> "answer", pc |-> "unlock", problemA |-> @.problemA,
             problemB |-> @.problemB, userAnswer |-> @.userAnswer,
             current |-> @.current, unlockedTables |-> @.unlockedTables,
             allProgress |-> allProgress]]
    /\ UNCHANGED <<progress, unlockedTables, now, req, res, page>>

\* the response of the answer handler, from its own unlockedTables and
\* allProgress
answerResponse(hd, n, tnow) ==
    [status |-> 200, correct |-> hd.userAnswer = hd.problemA * hd.problemB,
     nextProblem |-> selectNextProblem(hd.allProgress, n,
                                       [a |-> hd.problemA, b |-> hd.problemB], tnow),
     stats |-> statsOf(hd.allProgress, n)]

answered(hd, n, tnow) ==
    [op |-> "answer", pc |-> "done", problemA |-> hd.problemA, problemB |-> hd.problemB,
     userAnswer |-> hd.userAnswer, current |-> hd.current,
     res |-> answerResponse(hd, n, tnow)]

\* if (shouldUnlockNextTable(allProgress, unlockedTables)) { unlockedTables += 1;
\* await prisma.user.update(...) }; without an unlock the handler goes on to
\* its response
AnswerUnlock(h) ==
    /\ handlers[h].op = "answer" /\ handlers[h].pc = "unlock"
    /\ LET hd == handlers[h]
       IN IF shouldUnlockNextTable(hd.allProgress, hd.unlockedTables)
          THEN /\ unlockedTables' = hd.unlockedTables + 1
               /\ handlers' = [handlers EXCEPT ![h].pc = "respond",
                                               ![h].unlockedTables = @ + 1]
          ELSE /\ UNCHANGED unlockedTables
               /\ handlers' = [handlers EXCEPT ![h] = answered(hd, hd.unlockedTables, now)]
    /\ UNCHANGED <<progress, now, req, res, page>>

\* the code after the user.update: select, stats, response
AnswerRespond(h) ==
    /\ handlers[h].op = "answer" /\ handlers[h].pc = "respond"
    /\ handlers' = [handlers EXCEPT ![h] = answered(@, @.unlockedTables, now)]
    /\ UNCHANGED <<progress, unlockedTables, now, req, res, page>>

\* the request reaches the reset handler
StartReset(h) ==
    /\ free(h)
    /\ handlers' = [handlers EXCEPT ![h] = [op |-> "reset", pc |-> "deleteMany"]]
    /\ UNCHANGED <<progress, unlockedTables, now, req, res, page>>

\* await prisma.problemProgress.deleteMany(...): the rows are gone, and with
\* them the ids that answer handlers hold for their update
ResetDeleteMany(h) ==
    /\ handlers[h].op = "reset" /\ handlers[h].pc = "deleteMany"
    /\ progress' = <<>>
    /\ handlers' = [g \in Handlers |->
          IF g = h THEN [op |-> "reset", pc |-> "userUpdate"]
          ELSE IF handlers[g].op = "answer" /\ handlers[g].pc = "update"
               THEN [handlers[g] EXCEPT !.gone = TRUE]
               ELSE handlers[g]]
    /\ UNCHANGED <<unlockedTables, now, req, res, page>>

\* await prisma.user.update({data: {unlockedTables: 1}})
ResetUserUpdate(h) ==
    /\ handlers[h].op = "reset" /\ handlers[h].pc = "userUpdate"
    /\ unlockedTables' = 1
    /\ handlers' = [handlers EXCEPT ![h].pc = "respond"]
    /\ UNCHANGED <<progress, now, req, res, page>>

\* return NextResponse.json({success: true})
ResetRespond(h) ==
    /\ handlers[h].op = "reset" /\ handlers[h].pc = "respond"
    /\ handlers' = [handlers EXCEPT ![h] =
          [op |-> "reset", pc |-> "done", res |-> [status |-> 200]]]
    /\ UNCHANGED <<progress, unlockedTables, now, req, res, page>>

\* Answer and reset requests of one learner, their handlers interleaved at
\* the awaits
NextRace ==
    \/ \E h \in Handlers : StartAnswer(h)
    \/ \E h \in Handlers : AnswerFindUnique(h)
    \/ \E h \in Handlers : AnswerUpdate(h)
    \/ \E h \in Handlers : AnswerUserFindUnique(h)
    \/ \E h \in Handlers : AnswerFindMany(h)
    \/ \E h \in Handlers : AnswerUnlock(h)
    \/ \E h \in Handlers : AnswerRespond(h)
    \/ \E h \in Handlers : StartReset(h)
    \/ \E h \in Handlers : ResetDeleteMany(h)
    \/ \E h \in Handlers : ResetUserUpdate(h)
    \/ \E h \in Handlers : ResetRespond(h)
    \/ Tick

SpecRace == InitRace /\ [][NextRace]_vars

----------------------------------------------------------------------------
(* practice/page.tsx: the practice page of one learner.  Each handler is taken
   with the request it sends and the route that serves it, as one step. *)

\* the form of the problem, or of the correction, is on the screen
formShown == ~page.loading /\ page.problem # NULL

\* the state setters of fetchNextProblem, given the problem of the response
pageAfterFetch(problem) ==
    [page EXCEPT !.problem = problem, !.answer = NaN, !.feedback = "none",
                 !.correctAnswer = 0, !.loading = FALSE]

\* fetchNextProblem: GET /api/next-problem, then the setters
fetchNextProblem(k) ==
    /\ GetNextProblem(k)
    /\ page' = pageAfterFetch(res'.problem)
    /\ UNCHANGED handlers

\* useEffect(() => { fetchNextProblem() }) of the page just mounted
Mount(k) ==
    /\ page.loading
    /\ fetchNextProblem(k)

\* the browser loads the page again: the state starts from its initial values
Reload ==
    /\ ~page.loading
    /\ page' = initialPage
    /\ UNCHANGED <<progress, unlockedTables, now, req, res, handlers>>

\* onChange of the input: setAnswer(e.target.value)
TypeAnswer ==
    /\ formShown
    /\ \E v \in Answers(page.problem.a, page.problem.b) \cup {NaN} :
         page' = [page EXCEPT !.answer = v]
    /\ UNCHANGED <<progress, unlockedTables, now, req, res, handlers>>

\* handleSubmit
handleSubmit(maxAnswers, secs) ==
    /\ formShown
    /\ page.feedback = "none"
    /\ IF page.answer = NaN
       THEN /\ page' = [page EXCEPT !.answer = NaN]
            /\ UNCHANGED <<progress, unlockedTables, now, req, res, handlers>>
       ELSE /\ totalAnswered(progress) < maxAnswers
            /\ \E responseSecs \in secs :
                 IF findUnique(progress, page.problem.a, page.problem.b) = 0
                 THEN AnswerNotFound(page.problem.a, page.problem.b, page.answer,
                                     responseSecs)
                 ELSE AnswerFound(page.problem.a, page.problem.b, page.answer,
                                  responseSecs)
            /\ page' = IF page.answer = page.problem.a * page.problem.b
                       THEN [page EXCEPT !.problem = IF res'.status = 200
                                                     THEN res'.nextProblem ELSE NULL,
                                         !.answer = NaN]
                       ELSE [page EXCEPT !.feedback = "incorrect",
                                         !.correctAnswer = page.problem.a * page.problem.b,
                                         !.answer = NaN]
            /\ UNCHANGED handlers

\* handleCorrection
handleCorrection(k) ==
    /\ formShown
    /\ page.feedback = "incorrect"
    /\ IF page.answer = page.correctAnswer
       THEN fetchNextProblem(k)
       ELSE UNCHANGED vars

\* onClick of "Reset progress" and of "Cancel": setConfirmReset
ClickReset ==
    /\ ~page.loading
    /\ page' = [page EXCEPT !.confirmReset = ~page.confirmReset]
    /\ UNCHANGED <<progress, unlockedTables, now, req, res, handlers>>

\* handleReset: POST /api/reset, setConfirmReset(false), fetchNextProblem
handleReset(k) ==
    /\ ~page.loading
    /\ page.confirmReset
    /\ LET rows == createMany(<<>>, missingProblems(<<>>, k), now)
       IN /\ progress' = rows
          /\ unlockedTables' = 1
          /\ \E list \in findMany(rows) :
               res' = [status |-> 200,
                       problem |-> selectNextProblem(list, 1, NULL, now),
                       stats |-> statsOf(list, 1)]
    /\ req' = [op |-> "next-problem"]
    /\ page' = [pageAfterFetch(res'.problem) EXCEPT !.confirmReset = FALSE]
    /\ UNCHANGED <<now, handlers>>

\* The practice page of a learner for whom the problems of the first two
\* tables are seeded, every answer given within 3 s
NextPage ==
    \/ Mount(2)
    \/ Reload
    \/ TypeAnswer
    \/ handleSubmit(MaxAnswersPage, {2000})
    \/ handleCorrection(2)
    \/ ClickReset
    \/ handleReset(2)
    \/ Tick

SpecPage == Init /\ [][NextPage]_vars

----------------------------------------------------------------------------
(* handleSubmit of the practice page in its two parts: up to the await of the
   fetch, and from the response on.  The form stays on the screen while a
   request is in flight, so the learner can type and submit again; the route
   serves each request as one step, and the responses arrive in any order. *)

\* handleSubmit up to "await fetch": the request is sent
SubmitSend(maxAnswers, secs) ==
    /\ formShown
    /\ page.feedback = "none"
    /\ page.answer # NaN
    /\ Len(handlers) < MaxInFlight
    /\ totalAnswered(progress) + Len(handlers) < maxAnswers
    /\ \E responseSecs \in secs :
         handlers' = Append(handlers,
            [pc |-> "sent", problemA |-> page.problem.a, problemB |-> page.problem.b,
             userAnswer |-> page.answer, responseSecs |-> responseSecs,
             correctAnswer |-> page.problem.a * page.problem.b])
    /\ UNCHANGED <<progress, unlockedTables, now, req, res, page>>

\* POST /api/answer serves a request in flight
SubmitServe(i) ==
    /\ handlers[i].pc = "sent"
    /\ LET hd == handlers[i]
       IN /\ IF findUnique(progress, hd.problemA, hd.problemB) = 0
             THEN AnswerNotFound(hd.problemA, hd.problemB, hd.userAnswer,
                                 hd.responseSecs)
             ELSE AnswerFound(hd.problemA, hd.problemB, hd.userAnswer, hd.responseSecs)
          /\ handlers' = [handlers EXCEPT ![i] =
                [pc |-> "served", userAnswer |-> hd.userAnswer,
                 correctAnswer |-> hd.correctAnswer, data |-> res']]
    /\ UNCHANGED page

\* handlers without its i-th entry
without(i) == SubSeq(handlers, 1, i - 1) \o SubSeq(handlers, i + 1, Len(handlers))

\* handleSubmit from "await res.json()" on: the setters
SubmitReceive(i) ==
    /\ handlers[i].pc = "served"
    /\ LET hd == handlers[i]
       IN page' = IF hd.userAnswer = hd.correctAnswer
                  THEN [page EXCEPT !.problem = IF hd.data.status = 200
                                                THEN hd.data.nextProblem ELSE NULL,
                                    !.answer = NaN]
                  ELSE [page EXCEPT !.feedback = "incorrect",
                                    !.correctAnswer = hd.correctAnswer,
                                    !.answer = NaN]
    /\ handlers' = without(i)
    /\ UNCHANGED <<progress, unlockedTables, now, req, res>>

\* The practice page with its answer requests in flight, for a learner for
\* whom the problems of the first two tables are seeded
NextSubmit ==
    \/ Mount(2)
    \/ TypeAnswer
    \/ SubmitSend(MaxAnswersSubmit, {2000})
    \/ \E i \in 1..Len(handlers) : SubmitServe(i)
    \/ \E i \in 1..Len(handlers) : SubmitReceive(i)
    \/ handleCorrection(2)
    \/ Tick

SpecSubmit == Init /\ [][NextSubmit]_vars

----------------------------------------------------------------------------
(* The functions of spaced-rep.ts, each applied once to arguments drawn from
   bounded sets: req holds the call, res what it returns *)

EaseInputs == {130, 135, 140, 150, 200, 250, 285, 290, 295, 300}
IntervalInputs == {0, 40, 100, 500, 1240}
SecsInputs == {0, 2000, 2999, 3000, 5000, 8000, 8001, 10000}
NowInputs == {0, 100}

StatsInputs ==
    [easeFactor : EaseInputs, intervalDays : IntervalInputs, nextReview : {0},
     timesCorrect : {0, 2}, timesWrong : {0, 1}, consecutiveCorrect : {0, 2, 3}]

CallCalculateNewStats ==
    /\ req = NoReq
    /\ \E current \in StatsInputs, correct \in BOOLEAN, responseSecs \in SecsInputs,
          tnow \in NowInputs :
           /\ req' = [op |-> "calculateNewStats", current |-> current,
                      correct |-> correct, responseSecs |-> responseSecs, now |-> tnow]
           /\ res' = calculateNewStats(current, correct, responseSecs, tnow)
           /\ UNCHANGED <<progress, unlockedTables, now>>

CallIsProblemUnlocked ==
    /\ req = NoReq
    /\ \E a \in 1..MAX_FACTOR, b \in 1..MAX_FACTOR, n \in 1..Len(TABLE_ORDER) :
           /\ req' = [op |-> "isProblemUnlocked", a |-> a, b |-> b, unlockedTables |-> n]
           /\ res' = isProblemUnlocked(a, b, n)
           /\ UNCHANGED <<progress, unlockedTables, now>>

CallIsMastered ==
    /\ req = NoReq
    /\ \E cc \in 0..4, ease \in {e \in MIN_EASE..MAX_EASE : e % 5 = 0} :
           /\ req' = [op |-> "isMastered",
                      stats |-> [consecutiveCorrect |-> cc, easeFactor |-> ease]]
           /\ res' = isMastered([consecutiveCorrect |-> cc, easeFactor |-> ease])
           /\ UNCHANGED <<progress, unlockedTables, now>>

\* the row of problem p with the statistics st
rowOf(p, st) ==
    [problemA |-> p.a, problemB |-> p.b, easeFactor |-> st.easeFactor,
     intervalDays |-> st.intervalDays, nextReview |-> st.nextReview,
     timesCorrect |-> st.timesCorrect, timesWrong |-> st.timesWrong,
     consecutiveCorrect |-> st.consecutiveCorrect]

\* rows for shouldUnlockNextTable: (1,5) is locked until three tables are
\* unlocked, the others until two are
UnlockProblems == <<[a |-> 1, b |-> 1], [a |-> 1, b |-> 5], [a |-> 1, b |-> 10],
                    [a |-> 10, b |-> 1], [a |-> 10, b |-> 10]>>

\* new, one answer short of mastered, mastered, a streak at a low ease factor
UnlockStats ==
    {[easeFactor |-> 250, intervalDays |-> 0, nextReview |-> 0, timesCorrect |-> 0,
      timesWrong |-> 0, consecutiveCorrect |-> 0],
     [easeFactor |-> 280, intervalDays |-> 250, nextReview |-> 250, timesCorrect |-> 2,
      timesWrong |-> 0, consecutiveCorrect |-> 2],
     [easeFactor |-> 295, intervalDays |-> 663, nextReview |-> 663, timesCorrect |-> 3,
      timesWrong |-> 0, consecutiveCorrect |-> 3],
     [easeFactor |-> 195, intervalDays |-> 230, nextReview |-> 230, timesCorrect |-> 3,
      timesWrong |-> 6, consecutiveCorrect |-> 3]}

\* the lists that hold the rows of the problems in chosen, in the order of
\* UnlockProblems, each with statistics of UnlockStats
UnlockLists ==
    UNION {
        LET idx == {i \in 1..Len(UnlockProblems) : UnlockProblems[i] \in chosen}
            Keep(p) == p \in chosen
            ps == SelectSeq(UnlockProblems, Keep)
        IN {[i \in 1..Len(ps) |-> rowOf(ps[i], f[i])] : f \in [1..Len(ps) -> UnlockStats]}
        : chosen \in SUBSET Range(UnlockProblems)}

CallShouldUnlockNextTable ==
    /\ req = NoReq
    /\ \E progressList \in UnlockLists, n \in {1, 2, 3, 11, 12} :
           /\ req' = [op |-> "shouldUnlockNextTable", progressList |-> progressList,
                      unlockedTables |-> n]
           /\ res' = shouldUnlockNextTable(progressList, n)
           /\ UNCHANGED <<progress, unlockedTables, now>>

\* rows for selectNextProblem: (1,5) is locked under one and two tables
SelectProblems == {[a |-> 1, b |-> 1], [a |-> 1, b |-> 10], [a |-> 10, b |-> 1],
                   [a |-> 1, b |-> 5]}

\* due at 100 or not, at a low or at the initial ease factor
SelectStats ==
    [easeFactor : {130, 250}, intervalDays : {100}, nextReview : {100, 300},
     timesCorrect : {1}, timesWrong : {1}, consecutiveCorrect : {1}]

\* the lists of at most MaxRows rows, of different problems, in any order
SelectLists ==
    UNION {{list \in [1..len -> {rowOf(p, st) : p \in SelectProblems, st \in SelectStats}] :
              \A i, j \in 1..len :
                 i # j => <<list[i].problemA, list[i].problemB>>
                          # <<list[j].problemA, list[j].problemB>>}
           : len \in 0..MaxRows}

LastInputs == {NULL, [a |-> 1, b |-> 1], [a |-> 1, b |-> 10]}

CallSelectNextProblem ==
    /\ req = NoReq
    /\ \E progressList \in SelectLists, n \in {1, 2}, lastProblem \in LastInputs :
           /\ req' = [op |-> "selectNextProblem", progressList |-> progressList,
                      unlockedTables |-> n, lastProblem |-> lastProblem, now |-> 100]
           /\ res' = selectNextProblem(progressList, n, lastProblem, 100)
           /\ UNCHANGED <<progress, unlockedTables, now>>

NextLib ==
    \/ CallCalculateNewStats /\ RoutesOnly
    \/ CallIsProblemUnlocked /\ RoutesOnly
    \/ CallIsMastered /\ RoutesOnly
    \/ CallShouldUnlockNextTable /\ RoutesOnly
    \/ CallSelectNextProblem /\ RoutesOnly

SpecLib == Init /\ [][NextLib]_vars

----------------------------------------------------------------------------
(* The answer route on the 1 x 1 row from the states a run of wrong answers
   leaves, under correct answers. *)

\* the row after w more wrong answers
RECURSIVE answeredWrong(_, _)
answeredWrong(rows, w) ==
    IF w = 0 THEN rows
    ELSE answeredWrong(update(rows, 1, calculateNewStats(rows[1], FALSE, 2000, 0)), w - 1)

\* the row of 1 x 1 as createMany inserts it, and after up to MaxWrongs wrong
\* answers in a row, given at once or after one slow correct answer: the ease
\* factor goes down by 0.2 a time from 2.5 or from 2.55, to the floor of 1.3
recoverRows ==
    LET created == <<defaultProgress(1, 1, 0)>>
        slow == update(created, 1, calculateNewStats(created[1], TRUE, 10000, 0))
    IN {answeredWrong(created, w) : w \in 0..MaxWrongs}
         \cup {answeredWrong(slow, w) : w \in 1..MaxWrongs}

InitRecover ==
    /\ progress \in recoverRows
    /\ unlockedTables = 1
    /\ now = 0
    /\ req = NoReq
    /\ res = NoRes
    /\ handlers = NoHandlers
    /\ page = initialPage

\* a correct answer to 1 x 1, up to MaxStreak in a row
PostCorrectAnswer(secs) ==
    /\ progress[1].consecutiveCorrect < MaxStreak
    /\ \E responseSecs \in secs : AnswerFound(1, 1, 1, responseSecs)

\* Correct answers of the fastest and of the slowest class of response time,
\* in any order, all within one day
NextRecover ==
    \/ PostCorrectAnswer({2000}) /\ RoutesOnly
    \/ PostCorrectAnswer({10000}) /\ RoutesOnly

SpecRecover == InitRecover /\ [][NextRecover]_vars

----------------------------------------------------------------------------
(* The routes for two learners.  Here progress is the whole problemProgress
   table: every row carries the userId of its learner, and unlockedTables is
   the unlockedTables column of the user table, one count per user.  Each
   request runs for the user of its session and names it in every query. *)

Users == {"ann", "bob"}

\* the rows a query with where: {userId} sees, in the table's order
ofUser(rows, userId) ==
    LET Mine(r) == r.userId = userId
    IN SelectSeq(rows, Mine)

\* faulty variant: the row is looked up by its problem alone
findUniqueOfUser_anyUser(rows, userId, a, b) ==
    LET Hit(i) == rows[i].problemA = a /\ rows[i].problemB = b
    IN IF \E i \in 1..Len(rows) : Hit(i)
       THEN CHOOSE i \in 1..Len(rows) : Hit(i)
       ELSE 0

\* findUnique with where: {userId_problemA_problemB}: the index of the row in
\* the table, 0 when there is none
findUniqueOfUser(rows, userId, a, b) ==
    LET Hit(i) == /\ rows[i].userId = userId
                  /\ rows[i].problemA = a
                  /\ rows[i].problemB = b
    IN IF \E i \in 1..Len(rows) : Hit(i)
       THEN CHOOSE i \in 1..Len(rows) : Hit(i)
       ELSE 0

\* createMany with data: {userId, problemA, problemB}
createManyOfUser(rows, userId, missing, tnow) ==
    rows \o [i \in 1..Len(missing) |->
                [userId |-> userId] @@ defaultProgress(missing[i].a, missing[i].b, tnow)]

\* update with where: {id}: the row keeps its user
updateOfUser(rows, i, newStats) ==
    [rows EXCEPT ![i] = [userId |-> rows[i].userId] @@ update(rows, i, newStats)[i]]

\* deleteMany with where: {userId}
deleteManyOfUser(rows, userId) ==
    LET Others(r) == r.userId # userId
    IN SelectSeq(rows, Others)

InitUsers ==
    /\ progress = <<>>
    /\ unlockedTables = [u \in Users |-> 1]
    /\ now = 0
    /\ req = NoReq
    /\ res = NoRes
    /\ handlers = NoHandlers
    /\ page = initialPage

\* GET /api/next-problem in the session of userId
GetNextProblemAs(userId, k) ==
    LET mine == ofUser(progress, userId)
        missing == missingProblems(mine, k)
        rows == IF Len(missing) > 0
                THEN createManyOfUser(progress, userId, missing, now)
                ELSE progress
    IN /\ progress' = rows
       /\ \E list \in findMany(ofUser(rows, userId)) :
            res' = [status |-> 200,
                    problem |-> selectNextProblem(list, unlockedTables[userId], NULL, now),
                    stats |-> statsOf(list, unlockedTables[userId])]
       /\ req' = [op |-> "next-problem", userId |-> userId]
       /\ UNCHANGED <<unlockedTables, now>>

\* POST /api/answer in the session of userId
AnswerAs(userId, problemA, problemB, userAnswer, responseSecs) ==
    LET correct == userAnswer = problemA * problemB
        i == findUniqueOfUser(progress, userId, problemA, problemB)
    IN /\ req' = [op |-> "answer", userId |-> userId, problemA |-> problemA,
                  problemB |-> problemB, userAnswer |-> userAnswer,
                  responseSecs |-> responseSecs]
       /\ IF i = 0
          THEN /\ res' = [status |-> 404]
               /\ UNCHANGED <<progress, unlockedTables>>
          ELSE LET newStats == calculateNewStats(progress[i], correct, responseSecs, now)
                   rows == updateOfUser(progress, i, newStats)
               IN /\ progress' = rows
                  /\ \E allProgress \in findMany(ofUser(rows, userId)) :
                       LET n == unlockedAfter(allProgress, unlockedTables[userId])
                           lastProblem == [a |-> problemA, b |-> problemB]
                       IN /\ unlockedTables' = [unlockedTables EXCEPT ![userId] = n]
                          /\ res' = [status |-> 200, correct |-> correct,
                                     nextProblem |->
                                         selectNextProblem(allProgress, n, lastProblem, now),
                                     stats |-> statsOf(allProgress, n)]
       /\ UNCHANGED now

PostAnswerAs(userId, k, maxAnswers, secs) ==
    /\ totalAnswered(progress) < maxAnswers
    /\ \E problemA \in Factors(k), problemB \in Factors(k), responseSecs \in secs :
         \E userAnswer \in Answers(problemA, problemB) :
            AnswerAs(userId, problemA, problemB, userAnswer, responseSecs)

\* POST /api/reset in the session of userId
PostResetAs(userId) ==
    /\ progress' = deleteManyOfUser(progress, userId)
    /\ unlockedTables' = [unlockedTables EXCEPT ![userId] = 1]
    /\ req' = [op |-> "reset", userId |-> userId]
    /\ res' = [status |-> 200]
    /\ UNCHANGED now

\* The routes under requests of two learners, the problems of the first two
\* tables seeded for each, all within one day
NextUsers ==
    \/ \E userId \in Users : GetNextProblemAs(userId, 2) /\ RoutesOnly
    \/ \E userId \in Users : PostAnswerAs(userId, 2, MaxAnswersUsers, {2000}) /\ RoutesOnly
    \/ \E userId \in Users : PostResetAs(userId) /\ RoutesOnly

SpecUsers == InitUsers /\ [][NextUsers]_vars

----------------------------------------------------------------------------
(* Claims *)

\* position of factor x in the table order, 1 for the table unlocked first
OrderOfTables == <<1, 10, 5, 11, 2, 3, 9, 4, 6, 7, 8, 12>>
PosInOrder(x) == CHOOSE i \in 1..12 : OrderOfTables[i] = x
UnlockedUnder(a, b, n) == PosInOrder(a) <= n /\ PosInOrder(b) <= n
MasteredRow(p) == p.consecutiveCorrect >= 3 /\ p.easeFactor >= 200

\* C1: every stored FactState, after any sequence of answers from the initial
\* state, has an ease factor of at least 1.3 and at most 3.0.
C1_EaseWithinBounds ==
    \A i \in 1..Len(progress) :
        progress[i].easeFactor >= 130 /\ progress[i].easeFactor <= 300

\* seven wrong answers in a row: the seventh starts from 1.3, where the floor acts
C1_Witness ==
    \E i \in 1..Len(progress) :
        /\ progress[i].timesWrong = 7
        /\ progress[i].timesCorrect = 0
        /\ progress[i].easeFactor = 130

\* C2: isMastered is true exactly when consecutive_correct >= 3 and
\* ease_factor >= 2.0, and right after a wrong answer the fact has
\* consecutive_correct = 0 and is not mastered, whatever its state before.
C2_MasteredIff ==
    /\ req.op = "isMastered" =>
         res = (req.stats.consecutiveCorrect >= 3 /\ req.stats.easeFactor >= 200)
    /\ (req.op = "calculateNewStats" /\ ~req.correct) =>
         (res.consecutiveCorrect = 0 /\ ~isMastered(res))

\* a mastered fact is answered wrong
C2_Witness ==
    /\ req.op = "calculateNewStats"
    /\ ~req.correct
    /\ req.current.consecutiveCorrect >= 3
    /\ req.current.easeFactor >= 200
    /\ res.consecutiveCorrect = 0

\* the ease bonus of the claim, by the response time in milliseconds
BonusFor(ms) == IF ms < 3000 THEN 15 ELSE IF ms <= 8000 THEN 10 ELSE 5

\* C3: a correct answer adds 1 to times_correct and consecutive_correct, leaves
\* times_wrong, sets the interval to 1 day if it was below 1 day and to
\* interval * (ease before the update) otherwise, and sets the ease factor to
\* min(3.0, ease + bonus), bonus 0.15 below 3 s, 0.10 from 3 s to 8 s, 0.05
\* above.  {2.5, 0 days} in 2 s gives {1 day, 2.65}; {2.5, 5 days} in 10 s
\* gives {12.5 days, 2.55}.
C3_CorrectAnswer ==
    (req.op = "calculateNewStats" /\ req.correct) =>
        LET cur == req.current
            sum == cur.easeFactor + BonusFor(req.responseSecs)
        IN /\ res.timesCorrect = cur.timesCorrect + 1
           /\ res.consecutiveCorrect = cur.consecutiveCorrect + 1
           /\ res.timesWrong = cur.timesWrong
           /\ cur.intervalDays < 100 => res.intervalDays = 100
           /\ cur.intervalDays >= 100 =>
                res.intervalDays * 100 = cur.intervalDays * cur.easeFactor
           /\ res.easeFactor = (IF sum > 300 THEN 300 ELSE sum)
           /\ (cur.easeFactor = 250 /\ cur.intervalDays = 0 /\ req.responseSecs = 2000)
                => (res.intervalDays = 100 /\ res.easeFactor = 265)
           /\ (cur.easeFactor = 250 /\ cur.intervalDays = 500
               /\ req.responseSecs = 10000)
                => (res.intervalDays = 1250 /\ res.easeFactor = 255)

\* {2.5, 5 days} answered correctly in 10 s
C3_Witness ==
    /\ req.op = "calculateNewStats"
    /\ req.correct
    /\ req.current.easeFactor = 250
    /\ req.current.intervalDays = 500
    /\ req.responseSecs = 10000
    /\ res.intervalDays = 1250
    /\ res.easeFactor = 255

\* C4: a wrong answer adds 1 to times_wrong, leaves times_correct, sets
\* consecutive_correct and the interval to 0 and the ease factor to
\* max(1.3, ease - 0.2); from 1.4 the result is 1.3.
C4_WrongAnswer ==
    (req.op = "calculateNewStats" /\ ~req.correct) =>
        LET cur == req.current
        IN /\ res.timesWrong = cur.timesWrong + 1
           /\ res.timesCorrect = cur.timesCorrect
           /\ res.consecutiveCorrect = 0
           /\ res.intervalDays = 0
           /\ res.easeFactor = (IF cur.easeFactor - 20 < 130 THEN 130
                                ELSE cur.easeFactor - 20)
           /\ cur.easeFactor = 140 => res.easeFactor = 130

\* ease 1.4, with an interval and a streak, answered wrong
C4_Witness ==
    /\ req.op = "calculateNewStats"
    /\ ~req.correct
    /\ req.current.easeFactor = 140
    /\ req.current.intervalDays = 500
    /\ req.current.consecutiveCorrect = 3
    /\ res.easeFactor = 130
    /\ res.intervalDays = 0

\* C5: for a, b in 1..12 and unlocked_count in 1..12, isProblemUnlocked is true
\* exactly when a and b are both among the first unlocked_count entries of
\* [1,10,5,11,2,3,9,4,6,7,8,12]; under 2, (1,10) and (10,1) are unlocked and
\* (1,2) is locked.
C5_UnlockedIff ==
    req.op = "isProblemUnlocked" =>
        /\ res = UnlockedUnder(req.a, req.b, req.unlockedTables)
        /\ (req.unlockedTables = 2 /\ <<req.a, req.b>> \in {<<1, 10>>, <<10, 1>>})
             => res = TRUE
        /\ (req.unlockedTables = 2 /\ <<req.a, req.b>> = <<1, 2>>) => res = FALSE

\* (1,2) under two unlocked tables: one factor is unlocked, the other is not
C5_Witness ==
    /\ req.op = "isProblemUnlocked"
    /\ req.a = 1 /\ req.b = 2 /\ req.unlockedTables = 2
    /\ res = FALSE

\* rows of the list of the call that belong to unlocked problems, and the
\* mastered ones among them
UnlockedRows ==
    {i \in 1..Len(req.progressList) :
        UnlockedUnder(req.progressList[i].problemA, req.progressList[i].problemB,
                      req.unlockedTables)}
MasteredUnlockedRows == {i \in UnlockedRows : MasteredRow(req.progressList[i])}

\* C6: shouldUnlockNextTable is false when unlocked_count >= 12, false when no
\* row belongs to an unlocked problem, and otherwise true exactly when the
\* mastered rows among the unlocked ones are at least 75% of the unlocked rows.
C6_UnlockPolicy ==
    req.op = "shouldUnlockNextTable" =>
        res = (/\ req.unlockedTables < 12
               /\ UnlockedRows # {}
               /\ 100 * Cardinality(MasteredUnlockedRows) >= 75 * Cardinality(UnlockedRows))

\* exactly three of four unlocked rows are mastered, and the fifth row, of a
\* locked problem, is not
C6_Witness ==
    /\ req.op = "shouldUnlockNextTable"
    /\ req.unlockedTables = 2
    /\ Len(req.progressList) = 5
    /\ Cardinality(UnlockedRows) = 4
    /\ Cardinality(MasteredUnlockedRows) = 3
    /\ \A i \in 1..5 : i \notin UnlockedRows => ~MasteredRow(req.progressList[i])
    /\ res = TRUE

\* C7: unlocked_count stays an integer in 1..12 under answer and reset
\* requests, and an answer request leaves it or adds exactly 1: never more, and
\* never less, also when the answer takes the mastery of a fact away.
C7_UnlockedCount ==
    /\ [](unlockedTables \in 1..12)
    /\ [][req'.op = "answer" =>
            unlockedTables' \in {unlockedTables, unlockedTables + 1}]_vars

\* all twelve tables are unlocked and a further correct answer to the
\* mastered problem has left them at twelve
C7_Witness ==
    /\ unlockedTables = 12
    /\ req.op = "answer"
    /\ Len(progress) = 1
    /\ progress[1].consecutiveCorrect = 14
    /\ MasteredRow(progress[1])

\* the call of selectNextProblem: rows of unlocked problems other than the
\* last problem, the due ones among them, the candidate set, and the
\* candidates of lowest ease factor
SelOpen ==
    {i \in 1..Len(req.progressList) :
        /\ UnlockedUnder(req.progressList[i].problemA, req.progressList[i].problemB,
                         req.unlockedTables)
        /\ <<req.progressList[i].problemA, req.progressList[i].problemB>>
             # <<req.lastProblem.a, req.lastProblem.b>>}
SelDue == {i \in SelOpen : req.progressList[i].nextReview <= req.now}
SelCandidates == IF SelDue # {} THEN SelDue ELSE SelOpen
SelLowest ==
    {i \in SelCandidates :
        \A j \in SelCandidates :
            req.progressList[i].easeFactor <= req.progressList[j].easeFactor}
ProblemAt(i) == [a |-> req.progressList[i].problemA, b |-> req.progressList[i].problemB]
LexBefore(p, q) == p.a < q.a \/ (p.a = q.a /\ p.b <= q.b)

\* C8 as stated: the candidate of lowest ease factor is picked, and among
\* several of that ease factor the one with the smallest (a, b), whatever the
\* order of the list.
C8_LexicographicTieBreak ==
    (req.op = "selectNextProblem" /\ SelCandidates # {}) =>
        \E i \in SelLowest :
            /\ res = ProblemAt(i)
            /\ \A j \in SelLowest : LexBefore(ProblemAt(i), ProblemAt(j))

\* C8, amended: the candidate of lowest ease factor is picked, and among
\* several of that ease factor the one that comes first in the list.
C8_FirstInListTieBreak ==
    (req.op = "selectNextProblem" /\ SelCandidates # {}) =>
        \E i \in SelLowest :
            /\ res = ProblemAt(i)
            /\ \A j \in SelLowest : i <= j

\* two candidates share the lowest ease factor, the one with the larger (a, b)
\* comes first in the list and is picked
C8_Witness ==
    /\ req.op = "selectNextProblem"
    /\ Cardinality(SelLowest) >= 2
    /\ Cardinality(SelCandidates) > Cardinality(SelLowest)
    /\ \E i \in SelLowest :
         /\ res = ProblemAt(i)
         /\ \A j \in SelLowest : i <= j
         /\ \E j \in SelLowest : ~LexBefore(ProblemAt(i), ProblemAt(j))

\* C9: when a row of an unlocked problem other than the last problem is due,
\* the problem returned is due, also when a row that is not due has a lower
\* ease factor; a problem that is not due is returned only when none is due.
C9_DueFirst ==
    req.op = "selectNextProblem" =>
        /\ SelDue # {} => \E i \in SelDue : res = ProblemAt(i)
        /\ \A i \in SelOpen :
             (res = ProblemAt(i) /\ req.progressList[i].nextReview > req.now)
                => SelDue = {}

\* a due row is picked although a row that is not due has a lower ease factor
C9_Witness ==
    /\ req.op = "selectNextProblem"
    /\ \E i \in SelDue :
         /\ res = ProblemAt(i)
         /\ \E j \in SelOpen \ SelDue :
              req.progressList[j].easeFactor < req.progressList[i].easeFactor

\* C10: a problem returned is unlocked and is not the last problem, and none
\* is returned exactly when the list has no row of an unlocked problem other
\* than the last problem, as with one table unlocked and (1,1) the last.
C10_UnlockedAndNotLast ==
    req.op = "selectNextProblem" =>
        /\ res # NULL =>
             /\ UnlockedUnder(res.a, res.b, req.unlockedTables)
             /\ res # req.lastProblem
             /\ \E i \in 1..Len(req.progressList) : res = ProblemAt(i)
        /\ (res = NULL) = (SelOpen = {})

\* one table unlocked, (1,1) was the last problem, and its row is in the list
\* beside rows of locked problems
C10_Witness ==
    /\ req.op = "selectNextProblem"
    /\ req.unlockedTables = 1
    /\ req.lastProblem = [a |-> 1, b |-> 1]
    /\ Len(req.progressList) >= 2
    /\ \E i \in 1..Len(req.progressList) : ProblemAt(i) = [a |-> 1, b |-> 1]
    /\ res = NULL

\* the request of the step asks for a problem that has no row before the step
NoRowForRequest ==
    /\ req'.op = "answer"
    /\ \A i \in 1..Len(progress) :
         <<progress[i].problemA, progress[i].problemB>> # <<req'.problemA, req'.problemB>>

\* C11: an answer whose response time is negative, or whose factors lie
\* outside 1..12, is rejected before the update runs and changes no FactState;
\* a negative response time never earns the +0.15 of a fast answer.
C11_InvalidAnswerRejected ==
    [][(/\ req'.op = "answer"
        /\ \/ req'.responseSecs < 0
           \/ req'.problemA \notin 1..12
           \/ req'.problemB \notin 1..12)
       => (res'.status # 200 /\ progress' = progress
           /\ unlockedTables' = unlockedTables)]_vars

\* C12: an answer for a problem that has no FactState ends in the not-found
\* error and leaves every FactState and unlocked_count as they were: no
\* FactState is created and nothing is unlocked.
C12_NotFoundChangesNothing ==
    [][NoRowForRequest =>
         (res'.status = 404 /\ progress' = progress
          /\ unlockedTables' = unlockedTables)]_vars

\* the learner has an answered row, and a request for 13 x 1 was turned down
C12_Witness ==
    /\ req.op = "answer"
    /\ req.problemA = 13 /\ req.problemB = 1
    /\ res.status = 404
    /\ Len(progress) = 1
    /\ progress[1].timesCorrect + progress[1].timesWrong >= 1

\* C13: when a reset request completes, the learner has no FactState left and
\* unlocked_count is 1, also when an answer request of the learner runs
\* between the steps of the reset.
C13_ResetLeavesInitialState ==
    [][\A h \in DOMAIN handlers :
         (handlers[h].op = "reset" /\ handlers[h].pc = "respond"
          /\ handlers'[h].pc = "done")
            => (progress' = <<>> /\ unlockedTables' = 1)]_vars

\* the answers recorded in a row
AnswersIn(row) == row.timesCorrect + row.timesWrong

\* C14: when two answer requests for the same problem have both completed,
\* the stored FactState holds both answers: it counts at least two answers
\* more than the earlier of the states the two requests started from.
C14_NoLostUpdate ==
    \A h1, h2 \in DOMAIN handlers :
        (/\ h1 # h2
         /\ handlers[h1].op = "answer" /\ handlers[h1].pc = "done"
         /\ handlers[h2].op = "answer" /\ handlers[h2].pc = "done"
         /\ handlers[h1].res.status = 200 /\ handlers[h2].res.status = 200
         /\ handlers[h1].problemA = handlers[h2].problemA
         /\ handlers[h1].problemB = handlers[h2].problemB)
        => \A i \in 1..Len(progress) :
              (/\ progress[i].problemA = handlers[h1].problemA
               /\ progress[i].problemB = handlers[h1].problemB)
              => AnswersIn(progress[i]) >=
                    Min(AnswersIn(handlers[h1].current),
                        AnswersIn(handlers[h2].current)) + 2

\* rows of the learner after the step that belong to problems unlocked under
\* n tables
RowsUnlockedAfter(n) ==
    {i \in 1..Len(progress') :
        UnlockedUnder(progress'[i].problemA, progress'[i].problemB, n)}

\* C15: in an answer request the update comes first, then the unlock check,
\* then the selection: the unlock policy is evaluated on the FactStates that
\* hold the update, and the next problem and the counts returned are computed
\* with unlocked_count as it is after the check, so that a problem of a table
\* this answer has unlocked can be the next problem.  (A step that leaves the
\* clock alone and ends with an answer in req is an answer request.)
C15_UpdateUnlockSelect ==
    [][(req'.op = "answer" /\ res'.status = 200 /\ now' = now) =>
        LET before == RowsUnlockedAfter(unlockedTables)
            after == RowsUnlockedAfter(unlockedTables')
            policy == /\ unlockedTables < 12
                      /\ before # {}
                      /\ 4 * Cardinality({i \in before : MasteredRow(progress'[i])})
                           >= 3 * Cardinality(before)
            open == {i \in after :
                        <<progress'[i].problemA, progress'[i].problemB>>
                            # <<req'.problemA, req'.problemB>>}
        IN /\ \E i \in 1..Len(progress) :
                /\ progress[i].problemA = req'.problemA
                /\ progress[i].problemB = req'.problemB
                /\ AnswersIn(progress'[i]) = AnswersIn(progress[i]) + 1
           /\ unlockedTables' = (IF policy THEN unlockedTables + 1 ELSE unlockedTables)
           /\ res'.stats.unlockedTables = unlockedTables'
           /\ res'.stats.unlocked = Cardinality(after)
           /\ res'.stats.mastered =
                 Cardinality({i \in after : MasteredRow(progress'[i])})
           /\ (res'.nextProblem = NULL) = (open = {})
           /\ res'.nextProblem # NULL =>
                 \E i \in open : res'.nextProblem = [a |-> progress'[i].problemA,
                                                     b |-> progress'[i].problemB]]_vars

\* the third correct answer to 1 x 1 has unlocked the table of 10, and the
\* next problem returned is a problem of that table
C15_Witness ==
    /\ req.op = "answer"
    /\ req.problemA = 1 /\ req.problemB = 1
    /\ res.status = 200
    /\ totalAnswered(progress) = 3
    /\ unlockedTables = 2
    /\ res.stats.unlockedTables = 2
    /\ res.stats.mastered = 1 /\ res.stats.unlocked = 4
    /\ res.nextProblem # NULL
    /\ 10 \in {res.nextProblem.a, res.nextProblem.b}

\* C16: for a learner who has given no wrong answer, the practice page never
\* comes to show no problem while fewer than 12 tables are unlocked: answering
\* every problem presented correctly goes on, by answers alone, until all 12
\* tables are unlocked.
C16_CorrectAnswersGoOn ==
    (/\ ~page.loading
     /\ unlockedTables < 12
     /\ \A i \in 1..Len(progress) : progress[i].timesWrong = 0)
    => page.problem # NULL

\* the step leaves correction mode as it is: same problem, same product
\* shown, no answer sent
StaysInCorrection ==
    /\ page'.problem = page.problem
    /\ page'.feedback = "incorrect"
    /\ page'.correctAnswer = page.correctAnswer
    /\ Len(handlers') <= Len(handlers)

\* the step ends the correction after the product was typed, and sends no
\* answer
CorrectionDone ==
    /\ page.answer = page.correctAnswer
    /\ page'.feedback = "none"
    /\ Len(handlers') <= Len(handlers)

\* in correction mode the product of the problem on the screen is shown
CorrectAnswerShown ==
    page.feedback = "incorrect" =>
        (page.problem # NULL /\ page.correctAnswer = page.problem.a * page.problem.b)

\* C17: after a wrong answer the page shows the correct answer and stays on
\* the problem in correction mode, showing no other problem and sending no
\* answer, until the learner has typed the correct product; any other value
\* typed leaves it in correction mode.
C17_CorrectionUntilTyped ==
    /\ []CorrectAnswerShown
    /\ [][page.feedback = "incorrect" => (StaysInCorrection \/ CorrectionDone)]_vars

\* rows of the learner after the step that belong to unlocked problems
UnlockedAfterStep == RowsUnlockedAfter(unlockedTables')

\* the step shows the problem that follows an answer: a correct answer was
\* submitted, or the correction of a wrong one was completed
ShowsNextProblem ==
    \/ /\ page.feedback = "none" /\ page'.feedback = "none"
       /\ totalAnswered(progress') = totalAnswered(progress) + 1
    \/ /\ page.feedback = "incorrect" /\ page'.feedback = "none"
       /\ ~page'.loading
       /\ progress' = progress

\* C18: on the practice page the problem shown after an answer (after a
\* correct answer, or after the correction of a wrong one) differs from the
\* problem just answered whenever more than one problem is unlocked.
C18_NoImmediateRepeat ==
    [][(/\ ShowsNextProblem
        /\ page.problem # NULL
        /\ Cardinality(UnlockedAfterStep) > 1)
       => page'.problem # page.problem]_vars

\* C19: calculateNewStats sets next_review to now + interval_days days: after
\* a wrong answer the fact is due at once (next_review is not after now, nor
\* after any later time), after a correct answer it is not due for at least
\* one day.
C19_NextReview ==
    req.op = "calculateNewStats" =>
        /\ res.nextReview = req.now + res.intervalDays
        /\ ~req.correct => \A t \in {req.now, req.now + 1, req.now + 100} :
                               res.nextReview <= t
        /\ req.correct => res.nextReview >= req.now + 100

\* a fact with an interval of 5 days answered wrong on day 1: due on day 1
C19_Witness ==
    /\ req.op = "calculateNewStats"
    /\ ~req.correct
    /\ req.now = 100
    /\ req.current.intervalDays = 500
    /\ res.nextReview = 100

\* C20: in every FactState reached from the initial one by answers,
\* interval_days is not negative.
C20_IntervalNotNegative ==
    \A i \in 1..Len(progress) : progress[i].intervalDays >= 0

\* a fact that was answered wrong and has since grown an interval beyond
\* one day
C20_Witness ==
    \E i \in 1..Len(progress) :
        /\ progress[i].timesWrong >= 1
        /\ progress[i].consecutiveCorrect >= 2
        /\ progress[i].intervalDays > 100
        /\ progress[i].easeFactor < 250

\* C21: the practice page shows 'All mastered!' (no problem, not loading) only
\* when every problem of the learner is mastered; it is not shown after the
\* first correct answer to 1 x 1 with one table unlocked.
C21_AllMasteredMeansMastered ==
    (~page.loading /\ page.problem = NULL) =>
        /\ Len(progress) > 0
        /\ \A i \in 1..Len(progress) : MasteredRow(progress[i])

\* the row of the table that the answer request of the step is about
AnsweredRow(i) ==
    /\ progress[i].userId = req'.userId
    /\ progress[i].problemA = req'.problemA
    /\ progress[i].problemB = req'.problemB

\* C22: a successful answer request for problem (a, b) changes only the
\* FactState of (a, b) of the learner that answers: the FactStates of the
\* learner's other problems and every FactState of other learners stay as they
\* are, no row is added or removed, and the answered FactState, now holding
\* one answer more, keeps its learner and its problem (a, b).
C22_AnswerChangesOneFactState ==
    [][(req'.op = "answer" /\ res'.status = 200 /\ now' = now) =>
         /\ Len(progress') = Len(progress)
         /\ \A i \in 1..Len(progress) :
              IF AnsweredRow(i)
              THEN /\ progress'[i].userId = progress[i].userId
                   /\ progress'[i].problemA = progress[i].problemA
                   /\ progress'[i].problemB = progress[i].problemB
                   /\ AnswersIn(progress'[i]) = AnswersIn(progress[i]) + 1
              ELSE progress'[i] = progress[i]
         /\ \E i \in 1..Len(progress) : AnsweredRow(i)]_vars

\* bob has answered 1 x 1 while ann holds an answered row of the same problem
\* and bob holds rows of other problems
C22_Witness ==
    /\ req.op = "answer" /\ req.userId = "bob" /\ res.status = 200
    /\ req.problemA = 1 /\ req.problemB = 1
    /\ \E i, j, k \in 1..Len(progress) :
         /\ progress[i].userId = "ann" /\ progress[i].problemA = 1
         /\ progress[i].problemB = 1 /\ AnswersIn(progress[i]) = 1
         /\ progress[j].userId = "bob" /\ progress[j].problemA = 1
         /\ progress[j].problemB = 1 /\ AnswersIn(progress[j]) = 1
         /\ progress[k].userId = "bob" /\ progress[k].problemA = 10

\* C23: an answer request for a problem that is locked for the learner when
\* the request is made (a factor outside the first unlocked_count entries of
\* the table order) changes no FactState.
C23_LockedAnswerChangesNothing ==
    [][(/\ req'.op = "answer"
        /\ now' = now
        /\ ~UnlockedUnder(req'.problemA, req'.problemB, unlockedTables))
       => progress' = progress]_vars

\* C24: from any reachable FactState, the ease factor at its floor of 1.3
\* included, 14 correct answers in a row with any response times make the
\* fact mastered, and it stays mastered while only correct answers follow: a
\* FactState that counts 14 or more consecutive correct answers is mastered.
C24_MasteredAfterFourteen ==
    \A i \in 1..Len(progress) :
        progress[i].consecutiveCorrect >= 14 => isMastered(progress[i])

\* the fact was at the floor of 1.3 and has been answered slowly 14 times in
\* a row: its ease factor is exactly 2.0
C24_Witness ==
    /\ req.op = "answer"
    /\ progress[1].timesWrong = MaxWrongs
    /\ progress[1].consecutiveCorrect = 14
    /\ progress[1].easeFactor = MASTERED_EASE

\* C25: a displayed problem is answered at most once: while an answer request
\* of the page is in flight (sent, its response not yet handled by the page),
\* a submit sends no further answer request.
C25_OneRequestInFlight ==
    [][Len(handlers') > Len(handlers) => handlers = NoHandlers]_vars

====
